---- MODULE Spec2Model ----
(***************************************************************************)
(* whenty: poll a condition on a repeating timer and run a callback once   *)
(* it returns true.  Model of src/src/index.ts (sync, async) together with *)
(* the host's timer facility (setInterval / clearInterval), the promise    *)
(* returned by async, and the caller-owned condition and callback.         *)
(*                                                                         *)
(* One timer tick of index.ts is                                           *)
(*     if (conditionFn()) { clearInterval(interval); callback();           *)
(*                          resolve(true);   -- async only -- }            *)
(* and is modelled statement by statement (pc), so that the order of the   *)
(* statements inside a tick is visible.  The host is single threaded: no   *)
(* other timer fires, and no time passes, while a tick is in progress.     *)
(***************************************************************************)
EXTENDS Integers, Sequences, FiniteSets

\* ------------------------------------------------------------------ scope
\* The invocations a run may make (two, so that invocations can overlap).
Ids == {1, 2}

\* The timers fire at most MaxTicks times in a run, and an invocation is
\* watched for one period more than that.
MaxTicks == 4
\* The condition functions throw at most MaxThrows times in a run.
MaxThrows == 1
\* intervalMs = 50 of both signatures.
DefaultIntervalMs == 50
\* The default timeoutMs the documentation gives for async.
DocDefaultTimeoutMs == 5000

\* The values a caller passes for intervalMs and for timeoutMs.
IntervalArgs == {2500}
TimeoutArgs == {0, 3000}
\* The numeric arguments of a call, after (conditionFn, callback): none,
\* (intervalMs) or (intervalMs, timeoutMs).
ArgLists ==
    {<<>>} \cup {<<iv>> : iv \in IntervalArgs}
           \cup {<<iv, to>> : iv \in IntervalArgs, to \in TimeoutArgs}

VARIABLES
    now,          \* the host clock, in ms
    kind,         \* kind[i]: "none" (not called yet), "sync" or "async"
    args,         \* args[i]: the numeric arguments the caller passed
    startedAt,    \* startedAt[i]: the time of the call
    active,       \* active[i]: the interval timer is set and not cleared
    due,          \* due[i]: when the interval timer fires next
    pc,           \* pc[i]: the statement of the tick that runs next
    external,     \* external[i]: the caller's state that conditionFn reads
    ticks,        \* ticks[i]: how often the timer's function has run
    evalCount,    \* evalCount[i]: how often conditionFn has been called
    firstTrueAt,  \* firstTrueAt[i]: the evaluation that first returned true
    condThrows,   \* condThrows[i]: how often conditionFn has thrown
    callCount,    \* callCount[i]: how often callback has been called
    cbAtTick,     \* cbAtTick[i]: the tick on which callback was last called
    cbThrew,      \* cbThrew[i]: callback threw
    promise,      \* promise[i]: [state, value] of the promise async returned
    results,      \* results[i]: the outcomes of conditionFn, "F", "T" or "X"
    uncaught,     \* uncaught[i]: the errors that left the timer's function
    glimpsed,     \* glimpsed[i]: the condition became true since the last tick
    missed        \* missed[i]: the last tick found false a condition glimpsed true

vars == <<now, kind, args, startedAt, active, due, pc, external, ticks,
          evalCount, firstTrueAt, condThrows, callCount, cbAtTick, cbThrew,
          promise, results, uncaught, glimpsed, missed>>

\* ------------------------------------------------------------ the promise
NoPromise == [state |-> "none", value |-> <<>>]
Pending == [state |-> "pending", value |-> <<>>]
Fulfilled(v) == [state |-> "fulfilled", value |-> <<v>>]

\* resolve(v): settles a pending promise, and is a no-op on a settled one.
ResolveWith(p, v) == IF p.state = "pending" THEN Fulfilled(v) ELSE p

\* ------------------------------------------------------------- arguments
\* intervalMs: number = 50
IntervalOf(i) == IF Len(args[i]) >= 1 THEN args[i][1] ELSE DefaultIntervalMs

\* A fourth argument, which neither signature declares: it is never read.
HasTimeoutArg(i) == Len(args[i]) >= 2
TimeoutArgOf(i) == args[i][2]

Called(i) == kind[i] # "none"

RECURSIVE Sum(_, _)
Sum(f, S) ==
    IF S = {} THEN 0 ELSE LET x == CHOOSE y \in S : TRUE
                          IN f[x] + Sum(f, S \ {x})

\* A tick is in progress: the host runs nothing else until it returns.
Busy == \E i \in Ids : pc[i] # "idle"

\* ------------------------------------------------------------------ Init
Init ==
    /\ now = 0
    /\ kind = [i \in Ids |-> "none"]
    /\ args = [i \in Ids |-> <<>>]
    /\ startedAt = [i \in Ids |-> 0]
    /\ active = [i \in Ids |-> FALSE]
    /\ due = [i \in Ids |-> 0]
    /\ pc = [i \in Ids |-> "idle"]
    /\ external = [i \in Ids |-> FALSE]
    /\ ticks = [i \in Ids |-> 0]
    /\ evalCount = [i \in Ids |-> 0]
    /\ firstTrueAt = [i \in Ids |-> 0]
    /\ condThrows = [i \in Ids |-> 0]
    /\ callCount = [i \in Ids |-> 0]
    /\ cbAtTick = [i \in Ids |-> 0]
    /\ cbThrew = [i \in Ids |-> FALSE]
    /\ promise = [i \in Ids |-> NoPromise]
    /\ results = [i \in Ids |-> <<>>]
    /\ uncaught = [i \in Ids |-> 0]
    /\ glimpsed = [i \in Ids |-> FALSE]
    /\ missed = [i \in Ids |-> FALSE]

\* ----------------------------------------------------------------- calls
\* Mutant: the timer's function is due at once, at the time of the call.
SetIntervalLeadingEdge(i, a) ==
    /\ active' = [active EXCEPT ![i] = TRUE]
    /\ due' = [due EXCEPT ![i] = now]

\* setInterval(f, intervalMs): the timer is set and first fires one period
\* from now; the call returns without running f.
SetInterval(i, a) ==
    /\ active' = [active EXCEPT ![i] = TRUE]
    /\ due' = [due EXCEPT ![i] =
                 now + (IF Len(a) >= 1 THEN a[1] ELSE DefaultIntervalMs)]

\* What every call records: the caller's arguments, the time, and the value
\* e the condition has at the time of the call.  The invocations of a run
\* are made before the first tick of an earlier one, so that they overlap.
Enter(i, a, e) ==
    /\ ~Called(i)
    /\ \A j \in Ids : j < i => Called(j) /\ ticks[j] = 0
    /\ ~Busy
    /\ a \in ArgLists
    /\ args' = [args EXCEPT ![i] = a]
    /\ startedAt' = [startedAt EXCEPT ![i] = now]
    /\ external' = [external EXCEPT ![i] = e]

\* sync(conditionFn, callback, intervalMs = 50): sets the timer and returns.
CallSync(i, a, e) ==
    /\ Enter(i, a, e)
    /\ kind' = [kind EXCEPT ![i] = "sync"]
    /\ SetInterval(i, a)
    /\ UNCHANGED <<now, pc, ticks, evalCount, firstTrueAt, condThrows,
                   callCount, cbAtTick, cbThrew, promise,
                   results, uncaught, glimpsed, missed>>

\* Mutant: async checks at once, its timer's function is due at the call.
CallAsyncLeadingEdge(i, a, e) ==
    /\ Enter(i, a, e)
    /\ kind' = [kind EXCEPT ![i] = "async"]
    /\ promise' = [promise EXCEPT ![i] = Pending]
    /\ SetIntervalLeadingEdge(i, a)
    /\ UNCHANGED <<now, pc, ticks, evalCount, firstTrueAt, condThrows,
                   callCount, cbAtTick, cbThrew, results, uncaught, glimpsed,
                   missed>>

\* async(conditionFn, callback, intervalMs = 50): creates the promise, sets
\* the timer in its executor and returns the promise, pending.
CallAsync(i, a, e) ==
    /\ Enter(i, a, e)
    /\ kind' = [kind EXCEPT ![i] = "async"]
    /\ promise' = [promise EXCEPT ![i] = Pending]
    /\ SetInterval(i, a)
    /\ UNCHANGED <<now, pc, ticks, evalCount, firstTrueAt, condThrows,
                   callCount, cbAtTick, cbThrew,
                   results, uncaught, glimpsed, missed>>

\* ----------------------------------------------------------------- ticks
\* The host runs the timer's function: the timer is active and due, and
\* nothing else is running.  The timer is re-armed one period later, and
\* the function starts by calling conditionFn().
TimerFires(i) ==
    /\ Called(i)
    /\ active[i]
    /\ ~Busy
    /\ due[i] = now
    /\ Sum(ticks, Ids) < MaxTicks
    /\ ticks' = [ticks EXCEPT ![i] = @ + 1]
    /\ due' = [due EXCEPT ![i] = now + IntervalOf(i)]
    /\ evalCount' = [evalCount EXCEPT ![i] = @ + 1]
    /\ glimpsed' = [glimpsed EXCEPT ![i] = FALSE]
    /\ missed' = [missed EXCEPT ![i] = glimpsed[i] /\ ~external[i]]

\* Mutant: the test is inverted, a false result runs the body of the if.
ConditionFalseTakesBranch(i) ==
    /\ TimerFires(i)
    /\ ~external[i]
    /\ pc' = [pc EXCEPT ![i] = "clear"]
    /\ results' = [results EXCEPT ![i] = Append(@, "F")]
    /\ UNCHANGED <<now, kind, args, startedAt, active, external, firstTrueAt,
                   condThrows, callCount, cbAtTick, cbThrew, promise,
                   uncaught>>

\* Mutant: resolve(true) stands after the if, and runs on a false result.
ConditionFalseResolves(i) ==
    /\ TimerFires(i)
    /\ ~external[i]
    /\ promise' = [promise EXCEPT ![i] = ResolveWith(@, TRUE)]
    /\ results' = [results EXCEPT ![i] = Append(@, "F")]
    /\ UNCHANGED <<now, kind, args, startedAt, active, pc, external,
                   firstTrueAt, condThrows, callCount, cbAtTick, cbThrew,
                   uncaught>>

\* Mutant: clearInterval(interval) stands before the if, the timer is
\* cleared on the first tick whatever the result.
ConditionFalseClears(i) ==
    /\ TimerFires(i)
    /\ ~external[i]
    /\ active' = [active EXCEPT ![i] = FALSE]
    /\ results' = [results EXCEPT ![i] = Append(@, "F")]
    /\ UNCHANGED <<now, kind, args, startedAt, pc, external, firstTrueAt,
                   condThrows, callCount, cbAtTick, cbThrew, promise,
                   uncaught>>

\* Mutant: the poller latches a condition seen true between the ticks, and
\* runs the body of the if on the next tick although the result is false.
ConditionFalseLatched(i) ==
    /\ TimerFires(i)
    /\ ~external[i]
    /\ results' = [results EXCEPT ![i] = Append(@, "F")]
    /\ pc' = [pc EXCEPT ![i] = IF glimpsed[i] THEN "clear" ELSE "idle"]
    /\ UNCHANGED <<now, kind, args, startedAt, active, external, firstTrueAt,
                   condThrows, callCount, cbAtTick, cbThrew, promise,
                   uncaught>>

\* if (conditionFn()) with conditionFn() false: the tick is over.
ConditionFalse(i) ==
    /\ TimerFires(i)
    /\ ~external[i]
    /\ results' = [results EXCEPT ![i] = Append(@, "F")]
    /\ UNCHANGED <<now, kind, args, startedAt, active, pc, external,
                   firstTrueAt, condThrows, callCount, cbAtTick, cbThrew,
                   promise,
                   uncaught>>

\* if (conditionFn()) with conditionFn() true: the body of the if runs next.
ConditionTrue(i) ==
    /\ TimerFires(i)
    /\ external[i]
    /\ firstTrueAt' = [firstTrueAt EXCEPT ![i] =
                         IF @ = 0 THEN evalCount'[i] ELSE @]
    /\ pc' = [pc EXCEPT ![i] = "clear"]
    /\ results' = [results EXCEPT ![i] = Append(@, "T")]
    /\ UNCHANGED <<now, kind, args, startedAt, active, external, condThrows,
                   callCount, cbAtTick, cbThrew, promise,
                   uncaught>>

\* Mutant: the throw of conditionFn() ends the polling, the timer is cleared.
ConditionThrowsStopsTimer(i) ==
    /\ TimerFires(i)
    /\ Sum(condThrows, Ids) < MaxThrows
    /\ condThrows' = [condThrows EXCEPT ![i] = @ + 1]
    /\ results' = [results EXCEPT ![i] = Append(@, "X")]
    /\ uncaught' = [uncaught EXCEPT ![i] = @ + 1]
    /\ active' = [active EXCEPT ![i] = FALSE]
    /\ UNCHANGED <<now, kind, args, startedAt, pc, external, firstTrueAt,
                   callCount, cbAtTick, cbThrew, promise>>

\* conditionFn() throws: nothing catches it, the timer's function is left
\* and the rest of the tick is skipped.
ConditionThrows(i) ==
    /\ TimerFires(i)
    /\ Sum(condThrows, Ids) < MaxThrows
    /\ condThrows' = [condThrows EXCEPT ![i] = @ + 1]
    /\ results' = [results EXCEPT ![i] = Append(@, "X")]
    /\ uncaught' = [uncaught EXCEPT ![i] = @ + 1]
    /\ UNCHANGED <<now, kind, args, startedAt, active, pc, external,
                   firstTrueAt, callCount, cbAtTick, cbThrew, promise>>

\* Mutant: clearInterval(interval) is missing.
ClearIntervalMissing(i) ==
    /\ pc[i] = "clear"
    /\ pc' = [pc EXCEPT ![i] = "callback"]
    /\ UNCHANGED <<now, kind, args, startedAt, active, due, external, ticks,
                   evalCount, firstTrueAt, condThrows, callCount, cbAtTick,
                   cbThrew, promise,
                   results, uncaught, glimpsed, missed>>

\* Mutant: resolve(true) stands before callback().
ClearIntervalThenResolve(i) ==
    /\ pc[i] = "clear"
    /\ active' = [active EXCEPT ![i] = FALSE]
    /\ promise' = [promise EXCEPT ![i] = ResolveWith(@, TRUE)]
    /\ pc' = [pc EXCEPT ![i] = "callback"]
    /\ UNCHANGED <<now, kind, args, startedAt, due, external, ticks,
                   evalCount, firstTrueAt, condThrows, callCount, cbAtTick,
                   cbThrew,
                   results, uncaught, glimpsed, missed>>

\* Mutant: the handle is one variable shared by all invocations, clearing it
\* stops every timer.
ClearIntervalShared(i) ==
    /\ pc[i] = "clear"
    /\ active' = [j \in Ids |-> FALSE]
    /\ pc' = [pc EXCEPT ![i] = "callback"]
    /\ UNCHANGED <<now, kind, args, startedAt, due, external, ticks,
                   evalCount, firstTrueAt, condThrows, callCount, cbAtTick,
                   cbThrew, promise, results, uncaught, glimpsed, missed>>

\* clearInterval(interval);
ClearInterval(i) ==
    /\ pc[i] = "clear"
    /\ active' = [active EXCEPT ![i] = FALSE]
    /\ pc' = [pc EXCEPT ![i] = "callback"]
    /\ UNCHANGED <<now, kind, args, startedAt, due, external, ticks,
                   evalCount, firstTrueAt, condThrows, callCount, cbAtTick,
                   cbThrew, promise,
                   results, uncaught, glimpsed, missed>>

\* callback(); returning normally.  In sync it is the tick's last statement.
Callback(i) ==
    /\ pc[i] = "callback"
    /\ callCount' = [callCount EXCEPT ![i] = @ + 1]
    /\ cbAtTick' = [cbAtTick EXCEPT ![i] = ticks[i]]
    /\ pc' = [pc EXCEPT ![i] = IF kind[i] = "async" THEN "resolve" ELSE "idle"]
    /\ UNCHANGED <<now, kind, args, startedAt, active, due, external, ticks,
                   evalCount, firstTrueAt, condThrows, cbThrew, promise,
                   results, uncaught, glimpsed, missed>>

\* Mutant: callback() stands in a try block with an empty catch, the tick
\* goes on after a throw.
CallbackThrowsCaught(i) ==
    /\ pc[i] = "callback"
    /\ callCount' = [callCount EXCEPT ![i] = @ + 1]
    /\ cbAtTick' = [cbAtTick EXCEPT ![i] = ticks[i]]
    /\ cbThrew' = [cbThrew EXCEPT ![i] = TRUE]
    /\ pc' = [pc EXCEPT ![i] = IF kind[i] = "async" THEN "resolve" ELSE "idle"]
    /\ UNCHANGED <<now, kind, args, startedAt, active, due, external, ticks,
                   evalCount, firstTrueAt, condThrows, promise, results,
                   uncaught, glimpsed, missed>>

\* callback(); throwing: nothing catches it, the rest of the tick is skipped.
CallbackThrows(i) ==
    /\ pc[i] = "callback"
    /\ callCount' = [callCount EXCEPT ![i] = @ + 1]
    /\ cbAtTick' = [cbAtTick EXCEPT ![i] = ticks[i]]
    /\ cbThrew' = [cbThrew EXCEPT ![i] = TRUE]
    /\ pc' = [pc EXCEPT ![i] = "idle"]
    /\ uncaught' = [uncaught EXCEPT ![i] = @ + 1]
    /\ UNCHANGED <<now, kind, args, startedAt, active, due, external, ticks,
                   evalCount, firstTrueAt, condThrows, promise,
                   results, glimpsed, missed>>

\* Mutant: resolve(false).
ResolveFalse(i) ==
    /\ pc[i] = "resolve"
    /\ promise' = [promise EXCEPT ![i] = ResolveWith(@, FALSE)]
    /\ pc' = [pc EXCEPT ![i] = "idle"]
    /\ UNCHANGED <<now, kind, args, startedAt, active, due, external, ticks,
                   evalCount, firstTrueAt, condThrows, callCount, cbAtTick,
                   cbThrew, results, uncaught, glimpsed, missed>>

\* resolve(true);
Resolve(i) ==
    /\ pc[i] = "resolve"
    /\ promise' = [promise EXCEPT ![i] = ResolveWith(@, TRUE)]
    /\ pc' = [pc EXCEPT ![i] = "idle"]
    /\ UNCHANGED <<now, kind, args, startedAt, active, due, external, ticks,
                   evalCount, firstTrueAt, condThrows, callCount, cbAtTick,
                   cbThrew,
                   results, uncaught, glimpsed, missed>>

\* ------------------------------------------------------------ environment
\* The caller's own code changes the state conditionFn reads (a change is
\* of interest while the timer that polls it is set).
SetExternal(i) ==
    /\ Called(i)
    /\ active[i]
    /\ ~Busy
    /\ external' = [external EXCEPT ![i] = ~@]
    /\ glimpsed' = [glimpsed EXCEPT ![i] = @ \/ external'[i]]
    /\ UNCHANGED <<now, kind, args, startedAt, active, due, pc, ticks,
                   evalCount, firstTrueAt, condThrows, callCount, cbAtTick,
                   cbThrew, promise,
                   results, uncaught, missed>>

\* An invocation is watched for MaxTicks + 1 of its periods.
WatchedUntil(i) == startedAt[i] + (MaxTicks + 1) * IntervalOf(i)

\* The end of the timer period of invocation i that the clock is in.
PeriodEnd(i) ==
    startedAt[i] + ((now - startedAt[i]) \div IntervalOf(i) + 1) * IntervalOf(i)

\* Time passes, up to the end of the current period of invocation i, and not
\* past the moment a timer is due: the host runs every due timer before the
\* clock moves on.
Advance(i) ==
    /\ Called(i)
    /\ ~Busy
    /\ PeriodEnd(i) <= WatchedUntil(i)
    /\ \A j \in Ids : active[j] => due[j] >= PeriodEnd(i)
    /\ now' = PeriodEnd(i)
    /\ UNCHANGED <<kind, args, startedAt, active, due, pc, external, ticks,
                   evalCount, firstTrueAt, condThrows, callCount, cbAtTick,
                   cbThrew, promise,
                   results, uncaught, glimpsed, missed>>

Next ==
    \/ \E i \in Ids, a \in ArgLists, e \in BOOLEAN : CallSync(i, a, e)
    \/ \E i \in Ids, a \in ArgLists, e \in BOOLEAN : CallAsync(i, a, e)
    \/ \E i \in Ids : ConditionFalse(i)
    \/ \E i \in Ids : ConditionTrue(i)
    \/ \E i \in Ids : ConditionThrows(i)
    \/ \E i \in Ids : ClearInterval(i)
    \/ \E i \in Ids : Callback(i)
    \/ \E i \in Ids : CallbackThrows(i)
    \/ \E i \in Ids : Resolve(i)
    \/ \E i \in Ids : SetExternal(i)
    \/ \E i \in Ids : Advance(i)

Spec == Init /\ [][Next]_vars

\* One statement of a tick of invocation i that is in progress.
TickStep(i) ==
    ClearInterval(i) \/ Callback(i) \/ CallbackThrows(i) \/ Resolve(i)

\* The host's event loop: a timer's function that has started runs on to its
\* end, a due timer is run, and time passes.
Fairness ==
    /\ \A i \in Ids : WF_vars(TickStep(i))
    /\ \A i \in Ids :
           WF_vars(ConditionFalse(i) \/ ConditionTrue(i) \/ ConditionThrows(i))
    /\ \A i \in Ids : WF_vars(Advance(i))

\* The runs of a single invocation: only the first of Ids is ever called.
Solo == {1}

SoloNext ==
    \/ \E i \in Solo, a \in ArgLists, e \in BOOLEAN : CallSync(i, a, e)
    \/ \E i \in Solo, a \in ArgLists, e \in BOOLEAN : CallAsync(i, a, e)
    \/ \E i \in Solo : ConditionFalse(i)
    \/ \E i \in Solo : ConditionTrue(i)
    \/ \E i \in Solo : ConditionThrows(i)
    \/ \E i \in Solo : ClearInterval(i)
    \/ \E i \in Solo : Callback(i)
    \/ \E i \in Solo : CallbackThrows(i)
    \/ \E i \in Solo : Resolve(i)
    \/ \E i \in Solo : SetExternal(i)
    \/ \E i \in Solo : Advance(i)

\* A single invocation under the host's fair event loop.
FairSpec == Init /\ [][SoloNext]_vars /\ Fairness

\* ===================================================================
\* Properties
\* ===================================================================
\* The time of the k-th tick of invocation i.
TickTime(i, k) == startedAt[i] + k * IntervalOf(i)

\* The deadline the documentation gives an invocation that passes a
\* timeoutMs > 0.
HasDeadline(i) == Called(i) /\ HasTimeoutArg(i) /\ TimeoutArgOf(i) > 0
Deadline(i) == startedAt[i] + TimeoutArgOf(i)

\* conditionFn has not returned true at or before time t.
NoTrueBy(i, t) == firstTrueAt[i] = 0 \/ TickTime(i, firstTrueAt[i]) > t

\* Every evaluation of conditionFn so far has returned false.
AllFalse(i) == firstTrueAt[i] = 0 /\ condThrows[i] = 0

\* The error the documentation describes for a timeout of t ms.
TimeoutError(t) == <<"Condition not met within ", t, "ms.">>
RejectedWith(i, t) ==
    promise[i].state = "rejected" /\ promise[i].value = TimeoutError(t)

\* C1: in sync and in async, callback is called at most once; when it has
\* been called, conditionFn has returned true and the call was on the tick of
\* its first true result (so never on an earlier tick); and once the tick of
\* the first true result is over, callback has been called exactly once.
C1_CallbackOnceOnFirstTrueTick ==
    \A i \in Ids :
        /\ callCount[i] <= 1
        /\ callCount[i] = 1 => firstTrueAt[i] >= 1 /\ cbAtTick[i] = firstTrueAt[i]
        /\ (firstTrueAt[i] >= 1 /\ pc[i] = "idle") => callCount[i] = 1

\* A sync invocation whose condition was first true on its 2nd evaluation and
\* an async one whose condition was true on its 1st, both finished.
C1_Witness ==
    \E i, j \in Ids :
        /\ kind[i] = "sync" /\ firstTrueAt[i] = 2 /\ callCount[i] = 1
        /\ kind[j] = "async" /\ firstTrueAt[j] = 1 /\ callCount[j] = 1
        /\ ~Busy

\* C2: once conditionFn has returned true, it is not evaluated again (and
\* the timer's function does not run again), however much time passes.
C2_NoEvaluationAfterTrue ==
    \A i \in Ids :
        firstTrueAt[i] >= 1 =>
            evalCount[i] = firstTrueAt[i] /\ ticks[i] = firstTrueAt[i]

\* Two further periods have passed since the first true result, with the
\* condition still true.
C2_Witness ==
    \E i \in Ids :
        /\ firstTrueAt[i] >= 1
        /\ external[i]
        /\ now >= TickTime(i, firstTrueAt[i] + 2)

\* C3: wherever the promise of async is fulfilled, callback has been called
\* exactly once, it returned, and the value is true; a promise is fulfilled
\* only for async.
C3_FulfilledAfterCallback ==
    \A i \in Ids :
        promise[i].state = "fulfilled" =>
            /\ kind[i] = "async"
            /\ callCount[i] = 1
            /\ ~cbThrew[i]
            /\ promise[i].value = <<TRUE>>

C3_Witness ==
    \E i \in Ids :
        kind[i] = "async" /\ promise[i].state = "fulfilled" /\ firstTrueAt[i] = 2

\* C4: in async with timeoutMs > 0, once the deadline has passed without
\* conditionFn having returned true, the promise is rejected with
\* "Condition not met within {timeoutMs}ms." and callback has not been called
\* (stated for the runs in which conditionFn does not throw).
C4_AsyncTimeoutRejects ==
    \A i \in Ids :
        (kind[i] = "async" /\ HasDeadline(i) /\ condThrows[i] = 0
            /\ now > Deadline(i) /\ NoTrueBy(i, Deadline(i)))
        => (RejectedWith(i, TimeoutArgOf(i)) /\ callCount[i] = 0)

\* C5: in sync with timeoutMs > 0, once the deadline has passed without
\* conditionFn having returned true, callback is never called, whatever the
\* condition does later (stated for the runs in which conditionFn does not
\* throw).
C5_SyncTimeoutSilent ==
    \A i \in Ids :
        (kind[i] = "sync" /\ HasDeadline(i) /\ condThrows[i] = 0
            /\ now > Deadline(i) /\ NoTrueBy(i, Deadline(i)))
        => callCount[i] = 0

\* C6: per invocation at most one of {callback called, timeout} occurs:
\* after callback was called the timer is cleared and the promise is not
\* rejected; after the deadline has passed without success the timer is
\* cleared and callback is not called.
C6_OneDeterminingEvent ==
    \A i \in Ids :
        /\ callCount[i] >= 1 =>
               ~active[i] /\ promise[i].state # "rejected"
        /\ (HasDeadline(i) /\ now > Deadline(i) /\ NoTrueBy(i, Deadline(i))) =>
               ~active[i] /\ callCount[i] = 0 /\ promise[i].state # "fulfilled"

\* C7: async without a timeoutMs argument has a deadline of 5000 ms (a
\* condition that stays false makes the promise reject and polling stop once
\* 5000 ms have passed), and sync without one has none.
C7_DefaultTimeouts ==
    \A i \in Ids :
        /\ (kind[i] = "async" /\ ~HasTimeoutArg(i) /\ AllFalse(i)
               /\ now > startedAt[i] + DocDefaultTimeoutMs)
           => (RejectedWith(i, DocDefaultTimeoutMs) /\ ~active[i])
        /\ (kind[i] = "sync" /\ ~HasTimeoutArg(i) /\ AllFalse(i))
           => active[i]

C9_SyncPollsWithoutDeadline ==
    \A i \in Ids :
        (kind[i] = "sync" /\ (HasTimeoutArg(i) => TimeoutArgOf(i) = 0)
            /\ AllFalse(i))
        => /\ active[i]
           /\ callCount[i] = 0
           /\ evalCount[i] = ticks[i]
           /\ due[i] = TickTime(i, ticks[i] + 1)
           /\ now <= due[i]

\* sync(conditionFn, callback, 2500, 0) after three ticks, always false, a
\* fourth period later.
C9_Witness ==
    \E i \in Ids :
        /\ kind[i] = "sync" /\ HasTimeoutArg(i) /\ TimeoutArgOf(i) = 0
        /\ AllFalse(i) /\ evalCount[i] = 3
        /\ now = TickTime(i, 4)

\* C10: until one intervalMs has passed since the call, neither sync nor
\* async has evaluated the condition or called callback, no tick is running
\* and the promise of async is pending, also when the condition is true at
\* the time of the call; the first evaluation is on the first tick.
C10_NothingBeforeFirstTick ==
    \A i \in Ids :
        /\ (Called(i) /\ now < TickTime(i, 1)) =>
               /\ evalCount[i] = 0
               /\ callCount[i] = 0
               /\ pc[i] = "idle"
               /\ active[i]
               /\ kind[i] = "async" => promise[i] = Pending
        /\ ticks[i] >= 1 => now >= TickTime(i, 1)

\* Both entry points, just called with the condition already true.
C10_Witness ==
    \E i, j \in Ids :
        /\ kind[i] = "sync" /\ kind[j] = "async"
        /\ external[i] /\ external[j]
        /\ now = startedAt[i] /\ now = startedAt[j]
        /\ evalCount[i] = 0 /\ evalCount[j] = 0

\* What the K-th tick, on which conditionFn first returned true, leaves
\* behind: callback called once, on that tick, and the timer cleared with no
\* tick after it.
DoneOnFirstTrueTick(i) ==
    /\ pc[i] = "idle"
    /\ callCount[i] = 1
    /\ cbAtTick[i] = firstTrueAt[i]
    /\ ticks[i] = firstTrueAt[i]
    /\ ~active[i]

\* C11 as stated: with no timeout configured, once conditionFn has returned
\* true and the tick is over, callback has been called, polling has stopped
\* and the promise of async is fulfilled with true.
C11_Original ==
    \A i \in Ids :
        (Called(i) /\ ~HasDeadline(i) /\ firstTrueAt[i] >= 1 /\ pc[i] = "idle")
        => /\ DoneOnFirstTrueTick(i)
           /\ kind[i] = "async" => promise[i] = Fulfilled(TRUE)

\* C11, amended: with no timeout configured and the host's event loop fair,
\* when conditionFn first returns true, on its K-th evaluation, then
\* eventually callback has been called and polling has stopped, both on the
\* K-th tick, and for async the promise is fulfilled with true if callback
\* returned, and left pending if callback threw; a tick runs at the end of
\* the K-th period, start + K * intervalMs.
C11_EventuallyDoneOnKthTick ==
    /\ \A i \in Ids :
           (Called(i) /\ ~HasDeadline(i) /\ firstTrueAt[i] >= 1)
           ~> (/\ DoneOnFirstTrueTick(i)
               /\ kind[i] = "async" =>
                      promise[i] = IF cbThrew[i] THEN Pending
                                                 ELSE Fulfilled(TRUE))
    /\ [](\A i \in Ids : pc[i] # "idle" => now = startedAt[i] + ticks[i] * IntervalOf(i))

\* async without timeout whose condition was first true on the 3rd
\* evaluation, fulfilled.
C11_Witness ==
    \E i \in Ids :
        /\ kind[i] = "async" /\ ~HasDeadline(i)
        /\ firstTrueAt[i] = 3 /\ DoneOnFirstTrueTick(i)
        /\ promise[i] = Fulfilled(TRUE)
        /\ now = startedAt[i] + 3 * IntervalOf(i)

\* The timeout the documentation gives invocation i.
DocTimeoutOf(i) == IF HasTimeoutArg(i) THEN TimeoutArgOf(i) ELSE DocDefaultTimeoutMs

\* C12: the promise of async is pending, fulfilled with true, or rejected
\* with the timeout error, and nothing else; sync has no promise; and a
\* settled promise is left as it is by every later step.
C12_SettledOnceAndFinal ==
    /\ [](\A i \in Ids :
             /\ promise[i].state \in {"none", "pending", "fulfilled", "rejected"}
             /\ promise[i].state = "none" <=> kind[i] # "async"
             /\ promise[i].state = "pending" => promise[i].value = <<>>
             /\ promise[i].state = "fulfilled" => promise[i].value = <<TRUE>>
             /\ promise[i].state = "rejected" =>
                    promise[i].value = TimeoutError(DocTimeoutOf(i)))
    /\ [][\A i \in Ids :
             promise[i].state \in {"fulfilled", "rejected"} =>
                 promise'[i] = promise[i]]_vars

\* A fulfilled promise, with time gone by since and a tick of the other
\* invocation after it.
C12_Witness ==
    \E i, j \in Ids :
        /\ promise[i].state = "fulfilled"
        /\ now > TickTime(i, firstTrueAt[i])
        /\ j # i /\ ticks[j] >= 1 /\ TickTime(j, ticks[j]) > TickTime(i, firstTrueAt[i])

\* C13: with a deadline configured that passes before conditionFn has
\* returned true, no tick runs and conditionFn is not evaluated at any time
\* after the deadline: the last tick and the last evaluation are at or before
\* it (ticks run on time, the k-th at start + k * intervalMs).
C13_NoTickAfterDeadline ==
    \A i \in Ids :
        (HasDeadline(i) /\ NoTrueBy(i, Deadline(i)))
        => /\ ticks[i] >= 1 => TickTime(i, ticks[i]) <= Deadline(i)
           /\ evalCount[i] >= 1 => TickTime(i, evalCount[i]) <= Deadline(i)

\* C14: on the tick where conditionFn returns true the timer is cleared
\* before callback is called: wherever callback is about to run, is running
\* or has run, the invocation's timer is not set.
C14_ClearedBeforeCallback ==
    \A i \in Ids :
        (pc[i] \in {"callback", "resolve"} \/ callCount[i] >= 1) => ~active[i]

\* callback of an async invocation has just returned, inside the tick.
C14_Witness ==
    \E i \in Ids : pc[i] = "resolve" /\ callCount[i] = 1 /\ ~active[i]

\* Everything that belongs to invocation i.
Local(i) ==
    <<kind[i], args[i], startedAt[i], active[i], due[i], pc[i], external[i],
      ticks[i], evalCount[i], firstTrueAt[i], condThrows[i], callCount[i],
      cbAtTick[i], cbThrew[i], promise[i], results[i], uncaught[i]>>

\* C15: invocations are independent: a step of one invocation (its call, a
\* statement of its tick, a change of its condition) leaves everything that
\* belongs to the other invocations as it is, and with two invocations made,
\* each calls its own callback at most once, on the tick where its own
\* condition first returned true, and exactly once when that tick is over.
C15_InvocationsIndependent ==
    /\ [][\A i, j \in Ids :
             (i # j /\ Local(i)' # Local(i)) => Local(j)' = Local(j)]_vars
    /\ []((\A i \in Ids : Called(i)) =>
             \A i \in Ids :
                 /\ callCount[i] <= 1
                 /\ callCount[i] = 1 => cbAtTick[i] = firstTrueAt[i]
                 /\ (firstTrueAt[i] >= 1 /\ pc[i] = "idle") =>
                        callCount[i] = 1 /\ ~active[i])

\* A sync and an async invocation overlap: one succeeds while the other is
\* polling, and the other succeeds on a later tick.
C15_Witness ==
    \E i, j \in Ids :
        /\ i # j /\ kind[i] # kind[j]
        /\ callCount[i] = 1 /\ callCount[j] = 1 /\ ~Busy
        /\ startedAt[j] < TickTime(i, firstTrueAt[i])
        /\ ticks[j] >= 2
        /\ TickTime(i, firstTrueAt[i]) < TickTime(j, firstTrueAt[j])

\* C16: a throw of conditionFn or of callback is not caught, in sync and in
\* async: every throw has left the timer's function as an uncaught error,
\* and the step on which it happens ends the tick with the statements after
\* it skipped (after conditionFn: no clearInterval, no callback, no resolve;
\* after callback: no resolve).
C16_ThrowsEscapeUncaught ==
    /\ [](\A i \in Ids :
             uncaught[i] = condThrows[i] + (IF cbThrew[i] THEN 1 ELSE 0))
    /\ [][\A i \in Ids :
             /\ condThrows'[i] # condThrows[i] =>
                    /\ uncaught'[i] = uncaught[i] + 1
                    /\ results'[i] = Append(results[i], "X")
                    /\ pc'[i] = "idle"
                    /\ active'[i] = active[i]
                    /\ callCount'[i] = callCount[i]
                    /\ promise'[i] = promise[i]
             /\ cbThrew'[i] # cbThrew[i] =>
                    /\ uncaught'[i] = uncaught[i] + 1
                    /\ pc'[i] = "idle"
                    /\ promise'[i] = promise[i]]_vars

\* An async invocation whose conditionFn threw on one tick and whose
\* callback threw on a later one.
C16_Witness ==
    \E i \in Ids :
        /\ kind[i] = "async" /\ condThrows[i] = 1 /\ cbThrew[i]
        /\ uncaught[i] = 2 /\ pc[i] = "idle"

\* Invocations i and j run side by side: called at the same time with the
\* same intervalMs, and with the same outcomes of conditionFn so far.
SideBySide(i, j) ==
    /\ Called(i) /\ Called(j)
    /\ startedAt[i] = startedAt[j]
    /\ IntervalOf(i) = IntervalOf(j)
    /\ results[i] = results[j]

C18_PollingSurvivesConditionThrow ==
    \A i \in Ids :
        condThrows[i] >= 1 =>
            /\ evalCount[i] = ticks[i]
            /\ callCount[i] <= 1
            /\ firstTrueAt[i] = 0 =>
                   /\ active[i]
                   /\ due[i] = TickTime(i, ticks[i] + 1)
                   /\ callCount[i] = 0
                   /\ kind[i] = "async" => promise[i] = Pending
            /\ (firstTrueAt[i] >= 1 /\ pc[i] = "idle") =>
                   callCount[i] = 1 /\ cbAtTick[i] = firstTrueAt[i]

\* conditionFn threw on the first tick, returned false on the second and
\* true on the third: callback called once, the promise fulfilled.
C18_Witness ==
    \E i \in Ids :
        /\ kind[i] = "async"
        /\ results[i] = <<"X", "F", "T">>
        /\ callCount[i] = 1 /\ promise[i] = Fulfilled(TRUE)

\* C19: in async, once callback has thrown: the timer is cleared, no tick
\* has run since, callback has been called exactly once, and the promise is
\* pending, in every later state.
C19_CallbackThrowLeavesPending ==
    \A i \in Ids :
        (kind[i] = "async" /\ cbThrew[i])
        => /\ ~active[i]
           /\ pc[i] = "idle"
           /\ ticks[i] = firstTrueAt[i]
           /\ callCount[i] = 1
           /\ promise[i] = Pending

\* callback of an async invocation threw, and two periods have passed.
C19_Witness ==
    \E i \in Ids :
        /\ kind[i] = "async" /\ cbThrew[i]
        /\ now >= TickTime(i, firstTrueAt[i] + 2)

\* C20: callback is called only on a tick whose own evaluation of the
\* condition returned true; after a tick that found false a condition that
\* had become true and false again since the tick before, callback has not
\* been called, the timer is set and the promise of async is pending.
C20_OnlyOwnEvaluationCounts ==
    \A i \in Ids :
        /\ callCount[i] >= 1 => results[i][cbAtTick[i]] = "T"
        /\ pc[i] # "idle" => results[i][ticks[i]] = "T"
        /\ missed[i] =>
               /\ results[i][ticks[i]] # "T"
               /\ firstTrueAt[i] = 0
               /\ callCount[i] = 0
               /\ active[i]
               /\ pc[i] = "idle"
               /\ kind[i] = "async" => promise[i] = Pending

\* The second tick of an invocation missed an episode, after a first tick
\* that found the condition false.
C20_Witness ==
    \E i \in Ids :
        /\ missed[i] /\ results[i] = <<"F", "F">>
        /\ callCount[i] = 0 /\ active[i]

====
